---- MODULE Spec2Model ----
(***************************************************************************)
(* doc/Geometries.ipynb as a state machine.  The state is the kernel       *)
(* namespace the code cells share, the value the last executed cell        *)
(* displayed, and the external data the cells read (the LAND geometries,   *)
(* the boundaries shapefile, the referendum CSV).  There is one action per  *)
(* code cell; a cell is a sequence of statements executed in order until    *)
(* one of them raises.                                                      *)
(***************************************************************************)
EXTENDS Integers, Sequences, FiniteSets, TLC

VARIABLES
    ns,          \* kernel namespace: notebook name -> value (or Unbound)
    out,         \* what the last executed cell displayed
    last,        \* the last executed cell, its status and where it raised
    iters,       \* the record generators made by shapes.records(), per cell
    pc,          \* position of the first top-to-bottom run (Done afterwards)
    landData,    \* geometries cf.LAND.geometries() yields
    shpPresent,  \* ./assets/boundaries/boundaries.shp exists
    shpRecords,  \* the records of the shapefile
    csvPresent,  \* ./assets/referendum.csv exists
    csvRows      \* the rows of the CSV

vars == <<ns, out, last, iters, pc, landData, shpPresent, shpRecords, csvPresent, csvRows>>
env == <<landData, shpPresent, shpRecords, csvPresent, csvRows>>

(***************************************************************************)
(* Bounds of the model.                                                    *)
(***************************************************************************)
MaxExtraLand == 1   \* LAND yields AustraliaIdx+1 .. AustraliaIdx+1+MaxExtraLand geometries
MaxRecords == 2     \* records in the shapefile
MaxRows == 2        \* rows in the CSV

Codes == {"E06", "E07"}
RowNames == {"Hart", "Rye"}
Regions == {"South"}
\* the leaveVoteshare of the row for a district code and name: no two rows share one
ShareOf(code, name) ==
    CASE code = "E06" /\ name = "Hart" -> "41"
      [] code = "E06" /\ name = "Rye" -> "48"
      [] code = "E07" /\ name = "Hart" -> "52"
      [] OTHER -> "59"

(***************************************************************************)
(* Program constants and literals of the cells.                            *)
(***************************************************************************)
AustraliaIdx == 21
ShapefilePath == "./assets/boundaries/boundaries.shp"
CsvPath == "./assets/referendum.csv"
OnArgName == "name"            \* variant: merging on the name column
OnArg == "code"
ValueArg == "leaveVoteshare"
IndexArgNone == <<>>
IndexArgLeftOut == <<>>        \* variant: the final cell called without index
IndexArg == <<"name", "regionName">>
PlateCarree == [kind |-> "crs", name |-> "PlateCarree"]
NoCrs == [kind |-> "crs", name |-> "None"]
Cell9Crs == PlateCarree
Cell11CrsNone == NoCrs        \* variant: the crs argument left out
Cell11Crs == PlateCarree
Cell13Crs == PlateCarree
Cell19Crs == PlateCarree

CodeCells == <<0, 4, 7, 9, 11, 13, 15, 17, 19>>
NumCells == Len(CodeCells)
Done == NumCells + 1

NotebookNames ==
    {"pd", "np", "hv", "gv", "cartopy", "ccrs", "cf",
     "coasts", "borders", "land", "land_geoms", "shapefile", "shapes", "referendum"}

(***************************************************************************)
(* Values.  Every value is a record with a kind, so any two compare.       *)
(***************************************************************************)
Unbound == [kind |-> "unbound"]
NoOutput == [kind |-> "NoOutput"]
Traceback(exc) == [kind |-> "Traceback", exc |-> exc]
Module(name) == [kind |-> "module", name |-> name]
Str(s) == [kind |-> "str", s |-> s]
PyList(items) == [kind |-> "list", items |-> items]
Geometry(id) == [kind |-> "geometry", id |-> id]
Record(code, geom) == [kind |-> "Record", attributes |-> [code |-> code], geometry |-> geom]
Reader(path) == [kind |-> "Reader", path |-> path]
DataFrame(rows) == [kind |-> "DataFrame", rows |-> rows]
Columns == {"code", "name", "regionName", "leaveVoteshare"}
NaN == "NaN"
None == "None"

IsBound(n, names) == names[n].kind # "unbound"

(***************************************************************************)
(* The library calls the cells make.                                       *)
(***************************************************************************)
\* gv.Feature(cf.X): a wrapper around one predefined cartographic layer.
Feature(layer) == [kind |-> "Feature", feature |-> layer, label |-> ""]

\* a + b: a Layout whose items are those of a followed by those of b.
Items(x) == IF x.kind = "Layout" THEN x.items ELSE <<x>>
Add(a, b) == [kind |-> "Layout", items |-> Items(a) \o Items(b)]

\* a * b: an Overlay whose layers are those of a followed by those of b.
Layers(x) == IF x.kind = "Overlay" THEN x.layers ELSE <<x>>
Mul(a, b) == [kind |-> "Overlay", label |-> "", layers |-> Layers(a) \o Layers(b)]

\* x.relabel(label)
Relabel(x, label) == [x EXCEPT !.label = label]

\* gv.Shape(geom, crs=..., group=...); level is the value a merged shape is coloured by.
Shape(geom, crs, group, level) ==
    [kind |-> "Shape", geom |-> geom, crs |-> crs, group |-> group, level |-> level]

\* hv.NdOverlay(items): later items replace earlier ones under the same key.
NdOverlay(pairs, kdims) ==
    LET keys == {pairs[i][1] : i \in 1..Len(pairs)}
        LastAt(k) == CHOOSE i \in 1..Len(pairs) :
                        /\ pairs[i][1] = k
                        /\ \A j \in (i + 1)..Len(pairs) : pairs[j][1] # k
    IN  [kind |-> "NdOverlay", kdims |-> kdims, data |-> [k \in keys |-> pairs[LastAt(k)][2]]]

\* list(cf.LAND.geometries())
LandGeometries == PyList(landData)

\* hv.Dataset(table): the table is kept as .data
HvDataset(table) == [kind |-> "Dataset", data |-> table]

\* pd.read_csv(path)
ReadCsv(path) == DataFrame(csvRows)

\* DataFrame.head(): the first HeadRows rows
HeadRows == 5
DfHead(df) == DataFrame(SubSeq(df.rows, 1, IF Len(df.rows) < HeadRows THEN Len(df.rows) ELSE HeadRows))

\* shapes.records(): a fresh generator over the records of the Reader's file
Generator(from) == [kind |-> "generator", from |-> from, pos |-> from]
NoGenerator == [kind |-> "generator", from |-> -1, pos |-> -1]
Records(reader) == Generator(0)
\* what a consumer that exhausts generator g receives, and the generator afterwards
\* (from: where it stood when the consumer took it; pos: where it stands now)
Drain(g) == SubSeq(shpRecords, g.pos + 1, Len(shpRecords))
Drained(g) ==
    [kind |-> "generator", from |-> g.pos,
     pos |-> IF g.pos > Len(shpRecords) THEN g.pos ELSE Len(shpRecords)]

(***************************************************************************)
(* Shape.from_records and Shape.from_shapefile.                            *)
(***************************************************************************)
NoDataset == [kind |-> "NoneType"]
OnStr(s) == [kind |-> "str", s |-> s]
OnDict(map) == [kind |-> "dict", map |-> map]
OnNone == [kind |-> "NoneType"]

\* variant: only a dictionary is taken as a mapping, a string is dropped
NormaliseOnDictOnly(on) == IF on.kind = "dict" THEN on.map ELSE <<>>
\* on given as a string names both the record attribute and the dataset column
NormaliseOn(on) ==
    IF on.kind = "str" THEN (on.s :> on.s)
    ELSE IF on.kind = "dict" THEN on.map
    ELSE <<>>

Attr(rec, a) == IF a \in DOMAIN rec.attributes THEN rec.attributes[a] ELSE None

IsMergeable(dataset) ==
    /\ dataset.kind = "Dataset"
    /\ dataset.data.kind = "DataFrame"

\* the rows of the dataset whose on-columns equal the record's on-attributes
Select(dataset, rec, onmap) ==
    SelectSeq(dataset.data.rows,
              LAMBDA row : \A a \in DOMAIN onmap : row[onmap[a]] = Attr(rec, a))

FromRecordsRaises(dataset, on, value) ==
    IF dataset.kind = "NoneType" THEN "none"
    ELSE IF ~IsMergeable(dataset) THEN "TypeError"
    ELSE IF on.kind = "NoneType" THEN "ValueError"
    ELSE IF \E a \in DOMAIN NormaliseOn(on) : NormaliseOn(on)[a] \notin Columns THEN "KeyError"
    ELSE IF value \notin Columns THEN "ValueError"
    ELSE "none"

FromRecords(records, dataset, on, value, index, crs) ==
    LET onmap == NormaliseOn(on)
        Rows(i) == IF dataset.kind = "NoneType" THEN <<>> ELSE Select(dataset, records[i], onmap)
        Level(i) == IF dataset.kind = "NoneType" THEN None
                    ELSE IF Rows(i) = <<>> THEN NaN
                    ELSE Rows(i)[1][value]
        Key(i) == IF index = <<>> THEN <<i - 1>>
                  ELSE [j \in 1..Len(index) |->
                          IF index[j] \in Columns /\ Rows(i) # <<>> THEN Rows(i)[1][index[j]]
                          ELSE Attr(records[i], index[j])]
        pairs == [i \in 1..Len(records) |->
                    <<Key(i), Shape(records[i].geometry, crs, "Shape", Level(i))>>]
    IN  NdOverlay(pairs, IF index = <<>> THEN <<"Index">> ELSE index)

\* from_shapefile(path, crs=...): from_records over a Reader of the file, nothing merged
FromShapefile(path, crs) ==
    FromRecords(Drain(Records(Reader(path))), NoDataset, OnNone, None, IndexArgNone, crs)

(***************************************************************************)
(* The statements of each code cell, in order: the notebook names a        *)
(* statement reads, the name it binds ("" for none), whether it calls into  *)
(* an external library (and so may raise there), and whether it is an       *)
(* expression whose value the cell displays when it is the last statement.  *)
(***************************************************************************)
Stmt(reads, binds, ext, expr) == [reads |-> reads, binds |-> binds, ext |-> ext, expr |-> expr]

Cell0Stmts ==
    << Stmt({}, "pd", TRUE, FALSE),            \* import pandas as pd
       Stmt({}, "np", TRUE, FALSE),            \* import numpy as np
       Stmt({}, "hv", TRUE, FALSE),            \* import holoviews as hv
       Stmt({}, "gv", TRUE, FALSE),            \* import geoviews as gv
       Stmt({}, "cartopy", TRUE, FALSE),       \* import cartopy
       Stmt({}, "ccrs", TRUE, FALSE),          \* from cartopy import crs as ccrs
       Stmt({}, "cf", TRUE, FALSE),            \* from cartopy import feature as cf
       Stmt({"hv"}, "", TRUE, FALSE),          \* hv.notebook_extension()
       Stmt({}, "", TRUE, FALSE) >>            \* %output dpi=120

Cell4Stmts ==
    << Stmt({}, "", TRUE, FALSE),                      \* %opts Overlay [...] Layout [...]
       Stmt({"gv", "cf"}, "coasts", TRUE, FALSE),      \* coasts = gv.Feature(cf.COASTLINE)
       Stmt({"gv", "cf"}, "borders", TRUE, FALSE),     \* borders = gv.Feature(cf.BORDERS)
       Stmt({"gv", "cf"}, "land", TRUE, FALSE),        \* land = gv.Feature(cf.LAND)
       Stmt({"land", "borders"}, "", TRUE, TRUE) >>    \* land + borders + (land*borders).relabel("Overlay")

Cell7Stmts ==
    << Stmt({"cf"}, "land_geoms", TRUE, FALSE),        \* land_geoms = list(cf.LAND.geometries())
       Stmt({"land_geoms"}, "", FALSE, TRUE) >>        \* land_geoms[21]

Cell9Stmts ==
    << Stmt({"gv", "land_geoms", "ccrs"}, "", TRUE, TRUE) >>

Cell11Stmts ==
    << Stmt({"hv", "gv", "ccrs", "land_geoms"}, "", TRUE, TRUE) >>

Cell13Stmts ==
    << Stmt({}, "shapefile", FALSE, FALSE),            \* shapefile = './assets/boundaries/boundaries.shp'
       Stmt({"gv", "shapefile", "ccrs"}, "", TRUE, TRUE) >>

\* variant: the Reader is constructed but not assigned to shapes
Cell15StmtsUnassigned ==
    << Stmt({"cartopy", "shapefile"}, "", TRUE, FALSE),
       Stmt({"shapes"}, "", TRUE, TRUE) >>
Cell15Stmts ==
    << Stmt({"cartopy", "shapefile"}, "shapes", TRUE, FALSE),  \* shapes = cartopy.io.shapereader.Reader(shapefile)
       Stmt({"shapes"}, "", TRUE, TRUE) >>                     \* list(shapes.records())[0]

Cell17Stmts ==
    << Stmt({"pd"}, "referendum", TRUE, FALSE),                \* referendum = pd.read_csv(...)
       Stmt({"hv", "referendum"}, "referendum", TRUE, FALSE),  \* referendum = hv.Dataset(referendum)
       Stmt({"referendum"}, "", TRUE, TRUE) >>                 \* referendum.data.head()

Cell19Stmts ==
    << Stmt({"gv", "shapes", "referendum", "ccrs"}, "", TRUE, TRUE) >>

Stmts(c) ==
    CASE c = 0 -> Cell0Stmts
      [] c = 4 -> Cell4Stmts
      [] c = 7 -> Cell7Stmts
      [] c = 9 -> Cell9Stmts
      [] c = 11 -> Cell11Stmts
      [] c = 13 -> Cell13Stmts
      [] c = 15 -> Cell15Stmts
      [] c = 17 -> Cell17Stmts
      [] c = 19 -> Cell19Stmts

\* the names a cell binds, and those bound by its statements before statement k
Binds(c) == {Stmts(c)[k].binds : k \in 1..Len(Stmts(c))} \ {""}
BoundBefore(c, k) == {Stmts(c)[j].binds : j \in 1..(k - 1)} \ {""}

(***************************************************************************)
(* The expressions of the cells, over the namespace n they are evaluated   *)
(* in.  Python lists are 0-based, TLA+ sequences 1-based.                  *)
(***************************************************************************)
Cell0Modules == <<"pandas", "numpy", "holoviews", "geoviews", "cartopy", "cartopy.crs", "cartopy.feature">>

\* variant: the overlay is built from coasts instead of borders
Cell4LayoutCoasts(n) == Add(Add(n.land, n.borders), Relabel(Mul(n.land, n.coasts), "Overlay"))
\* land + borders + (land*borders).relabel("Overlay")
Cell4Layout(n) == Add(Add(n.land, n.borders), Relabel(Mul(n.land, n.borders), "Overlay"))

\* land_geoms[21]
Cell7Display(n) == n.land_geoms.items[AustraliaIdx + 1]

\* gv.Shape(land_geoms[21], crs=ccrs.PlateCarree(), group='Australia')
Cell9Geom(n) == n.land_geoms.items[AustraliaIdx + 1]
Cell9Shape(n) == Shape(Cell9Geom(n), Cell9Crs, "Australia", None)

\* variant: enumerate counting from 1
EnumerateFromOne(xs) == [j \in 1..Len(xs) |-> <<j, xs[j]>>]
\* enumerate(xs): the pairs (i, xs[i]), i from 0
Enumerate(xs) == [j \in 1..Len(xs) |-> <<j - 1, xs[j]>>]

\* hv.NdOverlay({i: gv.Shape(s, crs=ccrs.PlateCarree()) for i, s in enumerate(land_geoms)})
Cell11Overlay(n) ==
    LET e == Enumerate(n.land_geoms.items)
    IN  NdOverlay([j \in 1..Len(e) |-> << <<e[j][1]>>, Shape(e[j][2], Cell11Crs, "Shape", None) >>],
                  <<"Element">>)

\* gv.Shape.from_shapefile(shapefile, crs=ccrs.PlateCarree())
Cell13Display(n) == FromShapefile(n.shapefile.s, Cell13Crs)

\* list(shapes.records())[0]: a fresh generator, exhausted by list()
Cell15Records(n) == Records(n.shapes)
Cell15Display(n) == Drain(Cell15Records(n))[1]

\* variant: the CSV is read only while referendum is unbound
Cell17ReadOnce(n) == IF IsBound("referendum", n) THEN n.referendum ELSE ReadCsv(CsvPath)
\* referendum = pd.read_csv('./assets/referendum.csv')
Cell17Read(n) == ReadCsv(CsvPath)
Cell17Display(n) == DfHead(n.referendum.data)

\* variant: the final cell is handed the generator the inspection cell made
Cell19RecordsReused(n) == IF iters[15].pos >= 0 THEN iters[15] ELSE Records(n.shapes)
\* the generator passed to from_records: shapes.records(), called in the final cell
Cell19Records(n) == Records(n.shapes)
Cell19Display(n) ==
    FromRecords(Drain(Cell19Records(n)), n.referendum, OnStr(OnArg), ValueArg, IndexArg, Cell19Crs)

\* the value of statement k of cell c (what it binds or displays)
Value(c, k, n) ==
    CASE c = 0 /\ k <= Len(Cell0Modules) -> Module(Cell0Modules[k])
      [] c = 4 /\ k = 2 -> Feature("COASTLINE")
      [] c = 4 /\ k = 3 -> Feature("BORDERS")
      [] c = 4 /\ k = 4 -> Feature("LAND")
      [] c = 4 /\ k = 5 -> Cell4Layout(n)
      [] c = 7 /\ k = 1 -> LandGeometries
      [] c = 7 /\ k = 2 -> Cell7Display(n)
      [] c = 9 -> Cell9Shape(n)
      [] c = 11 -> Cell11Overlay(n)
      [] c = 13 /\ k = 1 -> Str(ShapefilePath)
      [] c = 13 /\ k = 2 -> Cell13Display(n)
      [] c = 15 /\ k = 1 -> Reader(n.shapefile.s)
      [] c = 15 /\ k = 2 -> Cell15Display(n)
      [] c = 17 /\ k = 1 -> Cell17Read(n)
      [] c = 17 /\ k = 2 -> HvDataset(n.referendum)
      [] c = 17 /\ k = 3 -> Cell17Display(n)
      [] c = 19 -> Cell19Display(n)
      [] OTHER -> NoOutput

\* the exception statement k of cell c raises by itself in namespace n ("none" if none)
OwnRaise(c, k, n) ==
    CASE c \in {7, 9} /\ Stmts(c)[k].expr /\ Len(n.land_geoms.items) <= AustraliaIdx -> "IndexError"
      [] c = 13 /\ k = 2 /\ ~shpPresent -> "IOError"
      [] c = 15 /\ k = 1 /\ ~shpPresent -> "IOError"
      [] c = 15 /\ k = 2 /\ Drain(Cell15Records(n)) = <<>> -> "IndexError"
      [] c = 17 /\ k = 1 /\ ~csvPresent -> "IOError"
      [] c = 17 /\ k = 3 /\ n.referendum.data.kind # "DataFrame" -> "AttributeError"
      [] c = 19 /\ FromRecordsRaises(n.referendum, OnStr(OnArg), ValueArg) # "none" ->
            FromRecordsRaises(n.referendum, OnStr(OnArg), ValueArg)
      [] OTHER -> "none"

\* f is the statement whose external call fails (0: every external call returns normally)
Raised(c, k, n, f) ==
    IF \E r \in Stmts(c)[k].reads : ~IsBound(r, n) THEN "NameError"
    ELSE IF OwnRaise(c, k, n) # "none" THEN OwnRaise(c, k, n)
    ELSE IF f = k /\ Stmts(c)[k].ext THEN "ExternalError"
    ELSE "none"

\* statement k ran: its target, if any, is rebound
Bind(c, k, n) ==
    IF Stmts(c)[k].binds = "" THEN n
    ELSE [n EXCEPT ![Stmts(c)[k].binds] = Value(c, k, n)]

\* variant: the failing statement's target is bound to None
PropagateCaught(c, k, n, exc) ==
    [ns |-> IF Stmts(c)[k].binds = "" THEN n ELSE [n EXCEPT ![Stmts(c)[k].binds] = [kind |-> "NoneType"]],
     status |-> "error", stmt |-> k, exc |-> exc, out |-> Traceback(exc)]
\* an exception in statement k ends the cell there: nothing catches it
Propagate(c, k, n, exc) ==
    [ns |-> n, status |-> "error", stmt |-> k, exc |-> exc, out |-> Traceback(exc)]

\* the cell ran to its end: it displays its last statement if that is an expression
Finish(c, n) ==
    [ns |-> n, status |-> "ok", stmt |-> Len(Stmts(c)), exc |-> "none",
     out |-> IF Stmts(c)[Len(Stmts(c))].expr THEN Value(c, Len(Stmts(c)), n) ELSE NoOutput]

RECURSIVE RunFrom(_, _, _, _)
RunFrom(c, k, n, f) ==
    IF k > Len(Stmts(c)) THEN Finish(c, n)
    ELSE LET exc == Raised(c, k, n, f)
         IN  IF exc # "none" THEN Propagate(c, k, n, exc)
             ELSE RunFrom(c, k + 1, Bind(c, k, n), f)

\* the generators after the cell: cell 15 and cell 19 each exhaust the one they use
ItersAfter(c, r) ==
    IF c = 15 /\ (r.status = "ok" \/ r.stmt = 2) /\ r.exc # "NameError"
        THEN [iters EXCEPT ![15] = Drained(Cell15Records(r.ns))]
    ELSE IF c = 19 /\ r.status = "ok"
        THEN [iters EXCEPT ![19] = Drained(Cell19Records(r.ns))]
    ELSE iters

(***************************************************************************)
(* Executing a cell.  During the first top-to-bottom run (pc <= NumCells)  *)
(* only the cell at pc can run; afterwards any cell can be run again.      *)
(***************************************************************************)
Exec(c, f) ==
    /\ \/ pc <= NumCells /\ CodeCells[pc] = c /\ pc' = pc + 1
       \/ pc = Done /\ pc' = pc
    /\ f = 0 \/ (f \in 1..Len(Stmts(c)) /\ Stmts(c)[f].ext)
    /\ LET r == RunFrom(c, 1, ns, f)
       IN  /\ ns' = r.ns
           /\ out' = r.out
           /\ last' = [cell |-> c, status |-> r.status, stmt |-> r.stmt, exc |-> r.exc]
           /\ iters' = ItersAfter(c, r)
    /\ UNCHANGED env

Cell0(f) ==
    /\ f \in 0..Len(Cell0Stmts)
    /\ Exec(0, f)
Cell4(f) ==
    /\ f \in 0..Len(Cell4Stmts)
    /\ Exec(4, f)
Cell7(f) ==
    /\ f \in 0..Len(Cell7Stmts)
    /\ Exec(7, f)
Cell9(f) ==
    /\ f \in 0..Len(Cell9Stmts)
    /\ Exec(9, f)
Cell11(f) ==
    /\ f \in 0..Len(Cell11Stmts)
    /\ Exec(11, f)
Cell13(f) ==
    /\ f \in 0..Len(Cell13Stmts)
    /\ Exec(13, f)
Cell15(f) ==
    /\ f \in 0..Len(Cell15Stmts)
    /\ Exec(15, f)
Cell17(f) ==
    /\ f \in 0..Len(Cell17Stmts)
    /\ Exec(17, f)
Cell19(f) ==
    /\ f \in 0..Len(Cell19Stmts)
    /\ Exec(19, f)

(***************************************************************************)
(* Initial states: a fresh kernel, and the external data.                  *)
(***************************************************************************)
RECURSIVE SeqsUpTo(_, _)
SeqsUpTo(S, n) ==
    IF n = 0 THEN {<<>>}
    ELSE SeqsUpTo(S, n - 1) \cup {Append(q, x) : q \in {p \in SeqsUpTo(S, n - 1) : Len(p) = n - 1}, x \in S}

LandData(n) == [i \in 1..n |-> Geometry(i - 1)]
\* the i-th record of the file carries the i-th geometry of the file
RecordSeqs(maxlen) ==
    {[i \in 1..Len(cs) |-> Record(cs[i], Geometry(100 + i))] : cs \in SeqsUpTo(Codes, maxlen)}
RowSet ==
    {[code |-> c, name |-> nm, regionName |-> rg, leaveVoteshare |-> ShareOf(c, nm)] :
        c \in Codes, nm \in RowNames, rg \in Regions}

FreshKernel ==
    /\ ns = [x \in NotebookNames |-> Unbound]
    /\ out = NoOutput
    /\ last = [cell |-> -1, status |-> "ok", stmt |-> 0, exc |-> "none"]
    /\ iters = [c \in {15, 19} |-> NoGenerator]

\* both assets present; the data has what the cells index into
Init ==
    /\ FreshKernel
    /\ pc = 1
    /\ landData \in {LandData(n) : n \in (AustraliaIdx + 1)..(AustraliaIdx + 1 + MaxExtraLand)}
    /\ shpPresent = TRUE
    /\ shpRecords \in RecordSeqs(MaxRecords) \ {<<>>}
    /\ csvPresent = TRUE
    /\ csvRows \in SeqsUpTo(RowSet, MaxRows)

\* every external call returns normally
Next ==
    \/ Cell0(0)
    \/ Cell4(0)
    \/ Cell7(0)
    \/ Cell9(0)
    \/ Cell11(0)
    \/ Cell13(0)
    \/ Cell15(0)
    \/ Cell17(0)
    \/ Cell19(0)

Spec == Init /\ [][Next]_vars

(***************************************************************************)
(* The notebook with failing externals: assets may be missing, LAND may    *)
(* yield too few geometries, the shapefile may be empty, and any external   *)
(* call may raise.  Cells are run by hand, in any order, any number of      *)
(* times.                                                                   *)
(***************************************************************************)
InitFail ==
    /\ FreshKernel
    /\ pc = Done
    /\ landData \in {LandData(AustraliaIdx), LandData(AustraliaIdx + 1)}
    /\ shpPresent \in BOOLEAN
    /\ shpRecords \in IF shpPresent THEN {<<>>, <<Record("E06", Geometry(101))>>} ELSE {<<>>}
    /\ csvPresent \in BOOLEAN
    /\ csvRows \in IF csvPresent THEN {<<r>> : r \in {q \in RowSet : q.name = "Hart" /\ q.code = "E06"}} ELSE {<<>>}

NextFail ==
    \/ \E f \in 0..Len(Cell0Stmts) : Cell0(f)
    \/ \E f \in 0..Len(Cell4Stmts) : Cell4(f)
    \/ \E f \in 0..Len(Cell7Stmts) : Cell7(f)
    \/ \E f \in 0..Len(Cell9Stmts) : Cell9(f)
    \/ \E f \in 0..Len(Cell11Stmts) : Cell11(f)
    \/ \E f \in 0..Len(Cell13Stmts) : Cell13(f)
    \/ \E f \in 0..Len(Cell15Stmts) : Cell15(f)
    \/ \E f \in 0..Len(Cell17Stmts) : Cell17(f)
    \/ \E f \in 0..Len(Cell19Stmts) : Cell19(f)

SpecFail == InitFail /\ [][NextFail]_vars

(***************************************************************************)
(* Properties.                                                             *)
(***************************************************************************)
RanOk(c) == last.cell = c /\ last.status = "ok"

\* the names cell c reads that no earlier statement of the same cell binds
CellReads(c) ==
    UNION {Stmts(c)[k].reads \ BoundBefore(c, k) : k \in 1..Len(Stmts(c))}

\* the kind of value each notebook name holds after a complete run
KindAfterRun(x) ==
    CASE x \in {"pd", "np", "hv", "gv", "cartopy", "ccrs", "cf"} -> "module"
      [] x \in {"coasts", "borders", "land"} -> "Feature"
      [] x = "land_geoms" -> "list"
      [] x = "shapefile" -> "str"
      [] x = "shapes" -> "Reader"
      [] x = "referendum" -> "Dataset"

\* C1: in a top-to-bottom run with both assets present and every external call
\* returning normally no cell raises: the cell about to run finds every name it
\* reads bound by an earlier cell, no executed cell ended in an error, and once
\* the last cell has run every notebook name is bound.
C1_RunsToTheEnd ==
    /\ last.status = "ok"
    /\ out.kind # "Traceback"
    /\ pc <= NumCells => \A x \in CellReads(CodeCells[pc]) : IsBound(x, ns)
    /\ pc = Done => \A x \in NotebookNames : IsBound(x, ns)

C1_Witness == pc = Done /\ RanOk(19) /\ out.kind = "NdOverlay"

\* C6: the overlay cell 11 displays has exactly the keys 0..len(land_geoms)-1 and
\* the Shape under key i wraps land_geoms[i].
C6_OneShapePerGeometry ==
    RanOk(11) =>
        LET geoms == ns.land_geoms.items
        IN  /\ out.kind = "NdOverlay"
            /\ DOMAIN out.data = {<<i>> : i \in 0..(Len(geoms) - 1)}
            /\ Cardinality(DOMAIN out.data) = Len(geoms)
            /\ \A i \in 0..(Len(geoms) - 1) :
                  /\ out.data[<<i>>].kind = "Shape"
                  /\ out.data[<<i>>].geom = geoms[i + 1]
            /\ \A i, j \in 0..(Len(geoms) - 1) :
                  i # j => out.data[<<i>>].geom # out.data[<<j>>].geom

C6_Witness == RanOk(11) /\ Len(ns.land_geoms.items) > AustraliaIdx + 1 /\ out.kind = "NdOverlay"

\* C7: cell 4 displays a layout of exactly three items: the land Feature, the
\* borders Feature, and an overlay labelled "Overlay" of land then borders; the
\* coasts Feature is in none of them.
C7_FeatureLayout ==
    RanOk(4) =>
        /\ out.kind = "Layout"
        /\ Len(out.items) = 3
        /\ out.items[1] = Feature("LAND") /\ out.items[1] = ns.land
        /\ out.items[2] = Feature("BORDERS") /\ out.items[2] = ns.borders
        /\ out.items[3].kind = "Overlay"
        /\ out.items[3].label = "Overlay"
        /\ out.items[3].layers = <<ns.land, ns.borders>>
        /\ ns.coasts = Feature("COASTLINE")
        /\ \A i \in 1..3 : out.items[i] # ns.coasts
        /\ \A i \in 1..Len(out.items[3].layers) : out.items[3].layers[i] # ns.coasts

C7_Witness == RanOk(4) /\ out.kind = "Layout" /\ IsBound("coasts", ns)

\* C8: the generator from_records consumes in the final cell is fresh: it stood
\* at the first record when handed over and was read to the last one, whatever
\* the inspection cell consumed; the displayed overlay is the one built from all
\* the records of the shapefile.
C8_FreshRecords ==
    /\ iters[19].pos >= 0 => iters[19].from = 0 /\ iters[19].pos = Len(shpRecords)
    /\ RanOk(19) =>
          out = FromRecords(shpRecords, ns.referendum, OnStr(OnArg), ValueArg, IndexArg, Cell19Crs)

C8_Witness ==
    /\ RanOk(19)
    /\ iters[15].pos = Len(shpRecords)
    /\ iters[19].from = 0
    /\ Len(shpRecords) >= 2

\* C9: after a complete run, whatever cells are run again, every name holds a
\* value of the kind the first run gave it, and referendum is an hv.Dataset whose
\* .data is the table read from the CSV (never a Dataset in a Dataset).
C9_RerunKeepsKinds ==
    pc = Done =>
        /\ \A x \in NotebookNames : ns[x].kind = KindAfterRun(x)
        /\ ns.referendum.data.kind = "DataFrame"
        /\ ns.referendum = HvDataset(DataFrame(csvRows))

\* cell 17 run again after the first run ended with cell 19
C9_Witness == pc = Done /\ RanOk(17) /\ ns.referendum.data.kind = "DataFrame"

\* C10: every Shape a cell displays has the Plate Carree crs, and the Australia
\* shape wraps the geometry cell 7 displays, land_geoms[21].
C10_AllPlateCarree ==
    /\ RanOk(9) =>
          /\ out.kind = "Shape"
          /\ out.crs = PlateCarree
          /\ out.geom = Cell7Display(ns)
          /\ out.geom = ns.land_geoms.items[AustraliaIdx + 1]
    /\ (RanOk(11) \/ RanOk(13) \/ RanOk(19)) =>
          /\ out.kind = "NdOverlay"
          /\ \A k \in DOMAIN out.data :
                out.data[k].kind = "Shape" /\ out.data[k].crs = PlateCarree

C10_Witness == RanOk(19) /\ out.kind = "NdOverlay" /\ DOMAIN out.data # {}

\* the rows of the CSV whose code is that of record i of the shapefile
RowsWithCodeOf(i) == {j \in 1..Len(csvRows) : csvRows[j].code = shpRecords[i].attributes.code}

\* shape sh, under key, is record i merged with row j of the CSV
MergedFrom(sh, i, j) ==
    /\ sh.geom = shpRecords[i].geometry
    /\ j \in RowsWithCodeOf(i)
    /\ sh.level = csvRows[j][ValueArg]

\* C2: every shape the final cell displays comes from a record of the shapefile;
\* if the CSV has rows with that record's code the shape is coloured by the
\* leaveVoteshare of one of them, and it is coloured by no row of another code.
C2_JoinedOnCode ==
    RanOk(19) =>
        \A key \in DOMAIN out.data :
            \E i \in 1..Len(shpRecords) :
                /\ out.data[key].geom = shpRecords[i].geometry
                /\ RowsWithCodeOf(i) # {} => \E j \in RowsWithCodeOf(i) : MergedFrom(out.data[key], i, j)
                /\ \A j \in 1..Len(csvRows) :
                      out.data[key].level = csvRows[j][ValueArg] => j \in RowsWithCodeOf(i)

\* a merged shape, with a row of another code in the CSV
C2_Witness ==
    /\ RanOk(19)
    /\ \E key \in DOMAIN out.data, i \in 1..Len(shpRecords), j, m \in 1..Len(csvRows) :
          /\ MergedFrom(out.data[key], i, j)
          /\ csvRows[m].code # csvRows[j].code

DefaultIndexed(records, dataset) ==
    FromRecords(records, dataset, OnStr(OnArg), ValueArg, IndexArgNone, Cell19Crs)

\* C3: without an index argument the overlay is keyed by the integers 0..n-1 (the
\* merge of the final cell without its index argument, and the overlay
\* from_shapefile displays); with index=['name', 'regionName'] the key of a merged
\* shape is the (name, regionName) of the row it is merged with.
C3_IndexFromDataset ==
    /\ RanOk(19) =>
          /\ DefaultIndexed(shpRecords, ns.referendum).kdims = <<"Index">>
          /\ DOMAIN DefaultIndexed(shpRecords, ns.referendum).data
                = {<<i>> : i \in 0..(Len(shpRecords) - 1)}
          /\ out.kdims = <<"name", "regionName">>
          /\ \A key \in DOMAIN out.data :
                \E i \in 1..Len(shpRecords) :
                    /\ out.data[key].geom = shpRecords[i].geometry
                    /\ RowsWithCodeOf(i) # {} =>
                          \E j \in RowsWithCodeOf(i) :
                              /\ MergedFrom(out.data[key], i, j)
                              /\ key = <<csvRows[j].name, csvRows[j].regionName>>
    /\ RanOk(13) =>
          /\ out.kdims = <<"Index">>
          /\ DOMAIN out.data = {<<i>> : i \in 0..(Len(shpRecords) - 1)}

\* two merged shapes under different keys
C3_Witness ==
    /\ RanOk(19)
    /\ \E k1, k2 \in DOMAIN out.data :
          /\ k1 # k2
          /\ out.data[k1].level # NaN
          /\ out.data[k2].level # NaN

Failed == last'.status = "error"

\* an error is displayed as that cell's traceback: no cell catches it or recovers
Surfaces ==
    /\ Failed => out' = Traceback(last'.exc) /\ last'.exc # "none"
    /\ last'.status = "ok" => last'.exc = "none" /\ out'.kind # "Traceback"

\* a cell that reads a name nothing has bound fails, at that statement or before
UnboundReadFails ==
    \A k \in 1..Len(Stmts(last'.cell)) :
        (\E x \in Stmts(last'.cell)[k].reads \ BoundBefore(last'.cell, k) : ~IsBound(x, ns))
            => Failed /\ last'.stmt <= k

\* C5 as stated: a failing cell leaves every name it would have bound as it was
\* (unbound, or with its previous binding), the error surfaces as the cell's
\* error, and a later cell reading an unbound name fails in turn.
C5_AsStated ==
    [][/\ Surfaces
       /\ Failed => \A x \in Binds(last'.cell) : ns'[x] = ns[x]
       /\ UnboundReadFails]_vars

\* C5, amended: a cell that fails in statement k has run its statements before k,
\* so the names those bind hold their new values; every other name is as it was;
\* the error surfaces as the cell's error, and a cell reading an unbound name
\* fails in turn.
C5_FailsWhereItRaises ==
    [][/\ Surfaces
       /\ Failed =>
            /\ \A x \in NotebookNames \ BoundBefore(last'.cell, last'.stmt) : ns'[x] = ns[x]
            /\ \A x \in BoundBefore(last'.cell, last'.stmt) : IsBound(x, ns')
       /\ UnboundReadFails]_vars

\* hv.Dataset raised after pd.read_csv returned: referendum is left bound to the table
C5_Witness ==
    /\ last.cell = 17
    /\ last.status = "error"
    /\ last.stmt = 2
    /\ last.exc = "ExternalError"
    /\ ns.referendum = DataFrame(csvRows)

====
